---- MODULE Spec2Model ----
(***************************************************************************)
(* A model of micro.js: micro.dom (class-attribute editing, qsa, matches), *)
(* micro.event (delegate, onReady) and micro.util (trim, template, ajax).  *)
(*                                                                         *)
(* Strings are sequences of one-character strings.  Class names handed to  *)
(* the class functions are built from ordinary name characters, for which  *)
(* new RegExp('(?:^|\\s+)' + className + '(?:\\s+|$)') matches className   *)
(* literally; class attributes are arbitrary strings of name characters    *)
(* and whitespace.                                                         *)
(***************************************************************************)
EXTENDS Integers, Sequences, FiniteSets, TLC

\* ------------------------------------------------------------------ bounds
MaxStrLen == 5
MaxDeliveries == 2
MaxPolls == 2
MaxProgress == 2
MaxTemplateLen == 6
MaxSelCalls == 3

\* ------------------------------------------------------------- alphabets
NameChars == {"a", "b"}
Whitespace == {" "}
Chars == NameChars \cup Whitespace

StringsUpTo(S, n) == UNION {[1..k -> S] : k \in 0..n}

ClassStrings == StringsUpTo(Chars, MaxStrLen)
\* the class names the calls are made with: the empty name, two names and
\* a longer name that one is a prefix and the other a suffix of
ClassNames == {<<>>, <<"a">>, <<"b">>, <<"a", "b">>}

Undefined == "undefined"

\* ======================================================================
\* state
\* ======================================================================

\* a node's class attribute and the last micro.dom call made on it
VARIABLES
    className,      \* node.className
    lastCall        \* the last micro.dom call and what it found

classVars == <<className, lastCall>>

\* one call of micro.event.onReady and the document it watches
VARIABLES
    nativeEvents,   \* document.addEventListener is present
    doScrollTop,    \* document.documentElement.doScroll && toplevel
    readyState,     \* document.readyState
    calledAt,       \* document.readyState when onReady was called, or NotCalled
    listeners,      \* the registered listeners: <<event, handler>>
    timerArmed,     \* a setTimeout(ieSrollCheck, 1) is pending
    isReady,        \* the closure's isReady
    callbackCount,  \* how many times callback() has run
    seen,           \* the signals delivered since onReady was called
    delivered,      \* how many times each signal has been delivered
    polls           \* how many times doScroll has thrown

readyVars == <<nativeEvents, doScrollTop, readyState, calledAt, listeners,
               timerArmed, isReady, callbackCount, seen, delivered, polls>>

\* one call of micro.event.delegate and the container it is made on
VARIABLES
    domKind,        \* how nodes take listeners: "standard" (addEventListener),
                    \* "legacy" (attachEvent only) or "none"
    matching,       \* the elements of the container that match the selector
    delegatedEvt,   \* the evt delegate was called with, or NotCalled
    nodeListeners,  \* the registered listeners: <<node, event name, handler>>
    lastEvent       \* the last event dispatched and what its listeners did

delegateVars == <<domKind, matching, delegatedEvt, nodeListeners, lastEvent>>

\* one call of micro.util.ajax and its transport
VARIABLES
    transport,      \* what window offers: "XMLHttpRequest", "ActiveXObject", "none"
    cfg,            \* the configuration object of the call, or NoCfg
    xmlhttp,        \* the transport object the call created
    successCalls,   \* how many times cfg.success has run
    failureCalls,   \* how many times cfg.failure has run
    successArg,     \* the argument of the last cfg.success call
    ajaxThrew,      \* a TypeError escaped the onreadystatechange handler
    progressEvents  \* readystatechange events seen with readyState 3

ajaxVars == <<transport, cfg, xmlhttp, successCalls, failureCalls, successArg,
              ajaxThrew, progressEvents>>

\* one call of micro.util.template
VARIABLES
    tmpl,           \* the template string
    data,           \* the data object: the value of each of its keys
    rendered        \* what the call returned, or NotRendered

templateVars == <<tmpl, data, rendered>>

\* micro.dom.qsa and micro.dom.matches, and the document they probe
VARIABLES
    hasQuerySelectorAll, \* document.querySelectorAll is present
    hasMatchesFunc, \* docEl.matches or a prefixed form of it is present
    domQsa,         \* what micro.dom.qsa is bound to
    domMatches,     \* what micro.dom.matches is bound to
    styleSheets,    \* how many times document.createStyleSheet() has run
    probes,         \* how many times _qsa and _matches have probed
    selected,       \* the elements that match the selector
    lastSel,        \* the last call through micro.dom and what it returned
    selCalls        \* how many calls have been made through micro.dom

selectorVars == <<hasQuerySelectorAll, hasMatchesFunc, domQsa, domMatches,
                  styleSheets, probes, selected, lastSel, selCalls>>

vars == <<classVars, readyVars, delegateVars, ajaxVars, templateVars,
          selectorVars>>

NotCalled == "not called"

\* ======================================================================
\* micro.util.trim and the regular expression of micro.dom
\* ======================================================================

\* number of leading whitespace characters of s
RECURSIVE LeadingWs(_)
LeadingWs(s) ==
    IF s = <<>> \/ Head(s) \notin Whitespace THEN 0 ELSE 1 + LeadingWs(Tail(s))

\* number of trailing whitespace characters of s
RECURSIVE TrailingWs(_)
TrailingWs(s) ==
    IF s = <<>> \/ s[Len(s)] \notin Whitespace THEN 0
    ELSE 1 + TrailingWs(SubSeq(s, 1, Len(s) - 1))

\* a trim that strips the leading whitespace only
trimLeading(str) == SubSeq(str, 1 + LeadingWs(str), Len(str))

\* str.trim(), or str.replace(/^\s+|\s+$/g, '')
trim(str) ==
    IF LeadingWs(str) = Len(str) THEN <<>>
    ELSE SubSeq(str, 1 + LeadingWs(str), Len(str) - TrailingWs(str))

\* length of the whitespace run of s that starts at position p (\s+ greedy)
WsRun(s, p) == IF p > Len(s) THEN 0 ELSE LeadingWs(SubSeq(s, p, Len(s)))

\* className matched literally at position p
LitAt(s, p, n) ==
    /\ p + Len(n) - 1 <= Len(s)
    /\ \A j \in 1..Len(n) : s[p + j - 1] = n[j]

\* (?:\s+|$) tried at position q: the position after it, 0 when it fails
SuffixEnd(s, q) ==
    IF WsRun(s, q) > 0 THEN q + WsRun(s, q)
    ELSE IF q = Len(s) + 1 THEN q ELSE 0

\* the lengths of (?:^|\s+) at position i that let the rest of the
\* expression match
PrefixLens(s, i, n) ==
    {k \in 0..WsRun(s, i) :
        /\ (k = 0 => i = 1)
        /\ LitAt(s, i + k, n)
        /\ SuffixEnd(s, i + k + Len(n)) # 0}

Min(S) == CHOOSE x \in S : \A y \in S : x <= y
Max(S) == CHOOSE x \in S : \A y \in S : y <= x

\* the alternative the engine takes: ^ before \s+, \s+ as long as possible
PrefixLen(s, i, n) ==
    LET ks == PrefixLens(s, i, n) IN IF 0 \in ks THEN 0 ELSE Max(ks)

\* leftmost match of the expression in s, 0 when there is none
MatchStart(s, n) ==
    LET starts == {i \in 1..(Len(s) + 1) : PrefixLens(s, i, n) # {}}
    IN  IF starts = {} THEN 0 ELSE Min(starts)

\* the position after the leftmost match that starts at i
MatchEnd(s, i, n) == SuffixEnd(s, i + PrefixLen(s, i, n) + Len(n))

\* re.test(str)
ReTest(s, n) == MatchStart(s, n) # 0

\* a replace that puts nothing in the place of the match
ReReplaceEmpty(s, n) ==
    LET i == MatchStart(s, n)
    IN  IF i = 0 THEN s
        ELSE SubSeq(s, 1, i - 1) \o SubSeq(s, MatchEnd(s, i, n), Len(s))

\* str.replace(re, ' '): the first match only (the expression has no g flag)
ReReplace(s, n) ==
    LET i == MatchStart(s, n)
    IN  IF i = 0 THEN s
        ELSE SubSeq(s, 1, i - 1) \o <<" ">> \o SubSeq(s, MatchEnd(s, i, n), Len(s))

\* ======================================================================
\* micro.dom: hasClass, addClass, removeClass, toggleClass on a class
\* attribute value
\* ======================================================================

\* a hasClass that looks for className anywhere in the attribute
hasClassSubstring(cls, name) == \E p \in 1..(Len(cls) + 1) : LitAt(cls, p, name)

hasClass(cls, name) == ReTest(cls, name)

\* a join that leaves the separator out
JoinNoSeparator(cls, name) == cls \o name

\* [node.className, className].join(' ')
JoinSpace(cls, name) == cls \o <<" ">> \o name

\* an addClass without its test for the class being present
addClassAlways(cls, name) == trim(cls \o <<" ">> \o name)

addClass(cls, name) ==
    IF ~hasClass(cls, name) THEN trim(JoinSpace(cls, name)) ELSE cls

\* one pass of removeClass: the first match replaced, the result trimmed
RemoveOnce(cls, name) == trim(ReReplace(cls, name))

\* a removeClass that stops after the first occurrence
removeClassFirst(cls, name) ==
    IF name # <<>> /\ ReTest(cls, name) THEN trim(ReReplace(cls, name)) ELSE cls

RECURSIVE removeClass(_, _)
removeClass(cls, name) ==
    IF name # <<>> /\ hasClass(cls, name)
    THEN LET once == RemoveOnce(cls, name)
         IN  IF hasClass(once, name) THEN removeClass(once, name)
             ELSE once
    ELSE cls

\* a toggle that ignores force
ToggleAddUnforced(cls, name, force) == ~ReTest(cls, name)

\* var add = (force !== undefined) ? force : !hasClass(node, className)
ToggleAdd(cls, name, force) ==
    IF force # Undefined THEN force = "true" ELSE ~hasClass(cls, name)

toggleClass(cls, name, force) ==
    IF ToggleAdd(cls, name, force) THEN addClass(cls, name)
    ELSE removeClass(cls, name)

\* the whitespace-delimited tokens of a class attribute, in order
RECURSIVE Tokens(_)
Tokens(s) ==
    IF s = <<>> THEN <<>>
    ELSE IF Head(s) \in Whitespace THEN Tokens(Tail(s))
    ELSE LET rest == Tokens(Tail(s))
         IN  IF Len(s) > 1 /\ s[2] \notin Whitespace
             THEN <<(<<Head(s)>> \o Head(rest))>> \o Tail(rest)
             ELSE <<(<<Head(s)>>)>> \o rest

\* the tokens of a class attribute that are not n, in order
RECURSIVE Without(_, _)
Without(toks, n) ==
    IF toks = <<>> THEN <<>>
    ELSE IF Head(toks) = n THEN Without(Tail(toks), n)
    ELSE <<Head(toks)>> \o Without(Tail(toks), n)

HasDuplicate(toks) ==
    \E i, j \in 1..Len(toks) : i # j /\ toks[i] = toks[j]

IsToken(s, n) == \E i \in 1..Len(Tokens(s)) : Tokens(s)[i] = n

\* how many of the tokens of s are n
Occurrences(s, n) == Cardinality({i \in 1..Len(Tokens(s)) : Tokens(s)[i] = n})

\* a call of micro.dom on the node whose class attribute is cls: the
\* function, its arguments, and what the attribute held when it was made
Call(op, n, force, cls) ==
    [op |-> op, name |-> n, force |-> force,
     had |-> hasClass(cls, n), count |-> Occurrences(cls, n)]

NoCall == [op |-> "none", name |-> <<>>, force |-> Undefined,
           had |-> FALSE, count |-> 0]

\* the attribute stays within the modelled length
Fits(cls) == Len(cls) <= MaxStrLen

\* micro.dom.addClass(node, n)
AddClass(n) ==
    /\ Fits(addClass(className, n))
    /\ className' = addClass(className, n)
    /\ lastCall' = Call("addClass", n, Undefined, className)
    /\ UNCHANGED <<readyVars, delegateVars, ajaxVars, templateVars, selectorVars>>

\* micro.dom.removeClass(node, n)
RemoveClass(n) ==
    /\ className' = removeClass(className, n)
    /\ lastCall' = Call("removeClass", n, Undefined, className)
    /\ UNCHANGED <<readyVars, delegateVars, ajaxVars, templateVars, selectorVars>>

\* micro.dom.toggleClass(node, n, force)
ToggleClass(n, force) ==
    /\ Fits(toggleClass(className, n, force))
    /\ className' = toggleClass(className, n, force)
    /\ lastCall' = Call("toggleClass", n, force, className)
    /\ UNCHANGED <<readyVars, delegateVars, ajaxVars, templateVars, selectorVars>>

ClassNext ==
    \/ \E n \in ClassNames : AddClass(n)
    \/ \E n \in ClassNames : RemoveClass(n)
    \/ \E n \in ClassNames, force \in {"true", "false", Undefined} :
            ToggleClass(n, force)

\* ======================================================================
\* micro.event.onReady
\* ======================================================================
EventSignals == {"DOMContentLoaded", "load", "readystatechange"}

\* the handlers onReady registers: the function ready, or the anonymous
\* function around it that the legacy branch attaches to onreadystatechange
NativeListeners == {<<"DOMContentLoaded", "ready">>, <<"load", "ready">>}
LegacyListeners == {<<"onreadystatechange", "anonymous">>, <<"onload", "ready">>}

\* a registration that does not look at document.readyState
RegisteredAnyway(state, native) ==
    IF native THEN NativeListeners ELSE LegacyListeners

\* what onReady registers, by the branch it takes
Registered(state, native) ==
    IF state = "complete" THEN {}
    ELSE IF native THEN NativeListeners
    ELSE LegacyListeners

\* a cleanup that leaves the failsafe listener in place
cleanupPrimaryOnly(ls, native, ev) ==
    IF native THEN ls \ {<<"DOMContentLoaded", "ready">>} ELSE ls

\* cleanup(ev): removeEventListener / detachEvent of the function ready
cleanup(ls, native, ev) ==
    IF native
    THEN ls \ {<<"DOMContentLoaded", "ready">>, <<"load", "ready">>}
    ELSE IF ev
         THEN ls \ {<<"onreadystatechange", "ready">>, <<"onload", "ready">>}
         ELSE ls

\* ready(ev), run with the listeners ls registered:
\* callback(); cleanup(ev); isReady = true
ready(ls, ev) ==
    /\ callbackCount' = callbackCount + 1
    /\ listeners' = cleanup(ls, nativeEvents, ev)
    /\ isReady' = TRUE

\* ieSrollCheck(), run with the listeners ls registered
ieSrollCheck(ls) ==
    IF isReady
    THEN /\ timerArmed' = FALSE
         /\ listeners' = ls
         /\ UNCHANGED <<callbackCount, isReady, seen, polls>>
    ELSE \* doScroll('left') throws and the check is rescheduled ...
         \/ /\ polls < MaxPolls
            /\ polls' = polls + 1
            /\ timerArmed' = TRUE
            /\ listeners' = ls
            /\ UNCHANGED <<callbackCount, isReady, seen>>
         \* ... or it returns and ready() runs without an event
         \/ /\ ready(ls, FALSE)
            /\ timerArmed' = FALSE
            /\ seen' = seen \cup {"doScroll"}
            /\ UNCHANGED polls

\* onReady(callback)
OnReady ==
    /\ calledAt = NotCalled
    /\ calledAt' = readyState
    /\ IF readyState = "complete"
       THEN /\ callbackCount' = callbackCount + 1
            /\ listeners' = Registered(readyState, nativeEvents)
            /\ UNCHANGED <<timerArmed, isReady, seen, polls>>
       ELSE IF nativeEvents \/ ~doScrollTop
            THEN /\ listeners' = Registered(readyState, nativeEvents)
                 /\ UNCHANGED <<callbackCount, timerArmed, isReady, seen, polls>>
            ELSE ieSrollCheck(Registered(readyState, nativeEvents))
    /\ UNCHANGED <<nativeEvents, doScrollTop, readyState, delivered>>
    /\ UNCHANGED <<classVars, delegateVars, ajaxVars, templateVars, selectorVars>>

\* the timer of setTimeout(ieSrollCheck, 1) expires
TimerFires ==
    /\ timerArmed
    /\ ieSrollCheck(listeners)
    /\ UNCHANGED <<nativeEvents, doScrollTop, readyState, calledAt, delivered>>
    /\ UNCHANGED <<classVars, delegateVars, ajaxVars, templateVars, selectorVars>>

Called == calledAt # NotCalled

\* the host dispatches an event of the document or the window, with
\* document.readyState being state, to the listener registered for it
Dispatch(event, signal, state) ==
    /\ delivered[signal] < MaxDeliveries
    /\ delivered' = [delivered EXCEPT ![signal] = @ + 1]
    /\ seen' = IF Called THEN seen \cup {signal} ELSE seen
    /\ IF <<event, "ready">> \in listeners
       THEN ready(listeners, TRUE)
       ELSE IF <<event, "anonymous">> \in listeners /\ state = "complete"
            THEN ready(listeners, TRUE)
            ELSE UNCHANGED <<callbackCount, listeners, isReady>>
    /\ UNCHANGED <<nativeEvents, doScrollTop, calledAt, timerArmed, polls>>

\* DOMContentLoaded is dispatched on the document, once it is parsed
DOMContentLoaded ==
    /\ nativeEvents
    /\ readyState # "loading"
    /\ Dispatch("DOMContentLoaded", "DOMContentLoaded", readyState)
    /\ UNCHANGED readyState
    /\ UNCHANGED <<classVars, delegateVars, ajaxVars, templateVars, selectorVars>>

\* load is dispatched on the window, once the document is complete
WindowLoad ==
    /\ readyState = "complete"
    /\ Dispatch(IF nativeEvents THEN "load" ELSE "onload", "load", readyState)
    /\ UNCHANGED readyState
    /\ UNCHANGED <<classVars, delegateVars, ajaxVars, templateVars, selectorVars>>

NextReadyState(state) == IF state = "loading" THEN "interactive" ELSE "complete"

\* document.readyState advances and readystatechange is dispatched
ReadyStateChange ==
    /\ readyState # "complete"
    /\ readyState' = NextReadyState(readyState)
    /\ Dispatch("onreadystatechange", "readystatechange",
                NextReadyState(readyState))
    /\ UNCHANGED <<classVars, delegateVars, ajaxVars, templateVars, selectorVars>>

ReadyNext ==
    \/ OnReady
    \/ TimerFires
    \/ DOMContentLoaded
    \/ WindowLoad
    \/ ReadyStateChange

\* ======================================================================
\* micro.event.addEvent and micro.event.delegate
\* ======================================================================
Elements == {"e1", "e2", "e3"}
Container == "container"
EventTypes == {"click", "change"}

\* what micro.util exports, and what micro.dom exports
UtilExports == {"template", "requestAnimFrame", "trim", "getWindowHeight", "ajax"}
DomExports == {"hasClass", "addClass", "removeClass", "toggleClass", "qsa", "matches"}

\* addEvent(node, evt, callback): the listener it registers on a node
addEvent(node, evt, handler, kind) ==
    IF kind = "standard" THEN {<<node, evt, handler>>}
    ELSE IF kind = "legacy" THEN {<<node, "on" \o evt, handler>>}
    ELSE {}

\* evt === 'change' && !container.addEventListener
LegacyChange(evt, kind) == evt = "change" /\ kind # "standard"

\* a qsa that returns every descendant
qsaEverything(matches) == Elements

\* micro.dom.qsa(selector, container): the matching descendants
qsa(matches) == matches

\* the listeners delegate(selector, evt, callback, container) registers
delegate(evt, kind, matches) ==
    IF LegacyChange(evt, kind)
    THEN UNION {addEvent(e, evt, "direct", kind) : e \in qsa(matches)}
    ELSE addEvent(Container, evt, "delegated", kind)

\* the listener delegate puts on the container, run for an event whose
\* target is target: "TypeError" when micro.util.matches is not a function
DelegatedListener(target, matches, exports) ==
    IF "matches" \notin exports THEN "TypeError"
    ELSE IF target \in matches THEN "called"
    ELSE "skipped"

\* the listener of the legacy change path: callback.apply(target)
DirectListener(target) == "called"

NoEvent == [type |-> "none", target |-> "none", matched |-> FALSE,
            registered |-> FALSE, invoked |-> 0, context |-> "none",
            threw |-> FALSE]

Delegate(evt) ==
    /\ delegatedEvt = NotCalled
    /\ delegatedEvt' = evt
    /\ nodeListeners' = delegate(evt, domKind, matching)
    /\ UNCHANGED <<domKind, matching, lastEvent>>
    /\ UNCHANGED <<classVars, readyVars, ajaxVars, templateVars, selectorVars>>

\* an element comes to match the selector, or stops matching it
MatchChanges(e) ==
    /\ matching' = IF e \in matching THEN matching \ {e} ELSE matching \cup {e}
    /\ UNCHANGED <<domKind, delegatedEvt, nodeListeners, lastEvent>>
    /\ UNCHANGED <<classVars, readyVars, ajaxVars, templateVars, selectorVars>>

\* the name a listener for type is registered under
ListenerName(type, kind) == IF kind = "legacy" THEN "on" \o type ELSE type

\* the nodes whose listeners an event at target reaches: change events
\* do not bubble where addEventListener is missing
Reached(type, target, kind) ==
    IF LegacyChange(type, kind) THEN {target} ELSE {target, Container}

\* what the listeners reached by the event do, in order
Outcomes(type, target) ==
    {IF l[3] = "direct" THEN DirectListener(target)
     ELSE DelegatedListener(target, matching, UtilExports) :
        l \in {m \in nodeListeners :
                 /\ m[1] \in Reached(type, target, domKind)
                 /\ m[2] = ListenerName(type, domKind)}}

\* an event of the given type occurs on the element target
EventOccurs(type, target) ==
    /\ lastEvent' = [type |-> type, target |-> target,
                     matched |-> target \in matching,
                     registered |-> delegatedEvt # NotCalled,
                     invoked |-> IF "called" \in Outcomes(type, target) THEN 1 ELSE 0,
                     context |-> IF "called" \in Outcomes(type, target)
                                 THEN target ELSE "none",
                     threw |-> "TypeError" \in Outcomes(type, target)]
    /\ UNCHANGED <<domKind, matching, delegatedEvt, nodeListeners>>
    /\ UNCHANGED <<classVars, readyVars, ajaxVars, templateVars, selectorVars>>

DelegateNext ==
    \/ \E evt \in EventTypes : Delegate(evt)
    \/ \E e \in Elements : MatchChanges(e)
    \/ \E type \in EventTypes, target \in Elements : EventOccurs(type, target)

\* ======================================================================
\* micro.util.ajax
\* ======================================================================
Statuses == {0, 200, 404}
Bodies == {"", "body"}
Methods == {"GET", "POST"}

NoTransport == [kind |-> "none", readyState |-> 0, status |-> 0,
                responseText |-> "", opened |-> "no", sent |-> FALSE]

\* cfg.method = cfg.method || 'GET'
DefaultMethod(method) == IF method = Undefined THEN "GET" ELSE method

\* a construction that assumes window.XMLHttpRequest
TransportKindAssumed(offered) ==
    IF offered = "ActiveXObject" THEN "MSXML2.XMLHTTP.6.0" ELSE "XMLHttpRequest"

\* the transport object ajax constructs, "none" when window offers neither
TransportKind(offered) ==
    IF offered = "XMLHttpRequest" THEN "XMLHttpRequest"
    ELSE IF offered = "ActiveXObject" THEN "MSXML2.XMLHTTP.6.0"
    ELSE "none"

\* a handler that takes every completed response for a success
OnReadyStateChangeAnyStatus(rs, status, c) ==
    IF rs = 4 THEN IF c.success THEN "success" ELSE "TypeError" ELSE "none"

\* a handler that does not wait for readyState 4
OnReadyStateChangeAnyState(rs, status, c) ==
    IF status = 200
    THEN IF c.success THEN "success" ELSE "TypeError"
    ELSE IF c.failure THEN "failure" ELSE "none"

\* the callback xmlhttp.onreadystatechange runs: "success", "failure",
\* "none", or "TypeError" when cfg.success is called and is not a function
OnReadyStateChange(rs, status, c) ==
    IF rs = 4
    THEN IF status = 200
         THEN IF c.success THEN "success" ELSE "TypeError"
         ELSE IF c.failure THEN "failure" ELSE "none"
    ELSE "none"

\* the configuration before any call
NoCfg == [success |-> FALSE, failure |-> FALSE, method |-> NotCalled]

\* ajax(cfg)
Ajax(success, failure, method) ==
    /\ cfg = NoCfg
    /\ cfg' = [success |-> success, failure |-> failure,
               method |-> DefaultMethod(method)]
    /\ IF TransportKind(transport) = "none"
       THEN /\ failureCalls' = IF failure THEN failureCalls + 1 ELSE failureCalls
            /\ UNCHANGED xmlhttp
       ELSE \* open(cfg.method, cfg.url, true) moves the transport to
            \* readyState 1; send() starts the request
            /\ xmlhttp' = [kind |-> TransportKind(transport), readyState |-> 1,
                           status |-> 0, responseText |-> "",
                           opened |-> DefaultMethod(method), sent |-> TRUE]
            /\ UNCHANGED failureCalls
    /\ UNCHANGED <<transport, successCalls, successArg, ajaxThrew, progressEvents>>
    /\ UNCHANGED <<classVars, readyVars, delegateVars, templateVars,
                   selectorVars>>

\* the transport moves to readyState rs and fires readystatechange
TransportEvent(rs, status, body) ==
    /\ xmlhttp.sent
    /\ xmlhttp.readyState < 4
    /\ rs >= xmlhttp.readyState
    /\ rs = 3 => progressEvents < MaxProgress
    /\ rs < 4 => status = 0 /\ body = ""
    /\ xmlhttp' = [xmlhttp EXCEPT !.readyState = rs, !.status = status,
                                  !.responseText = body]
    /\ progressEvents' = IF rs = 3 THEN progressEvents + 1 ELSE progressEvents
    /\ LET ran == OnReadyStateChange(rs, status, cfg)
       IN  /\ successCalls' = IF ran = "success" THEN successCalls + 1
                              ELSE successCalls
           /\ successArg' = IF ran = "success" THEN body ELSE successArg
           /\ failureCalls' = IF ran = "failure" THEN failureCalls + 1
                              ELSE failureCalls
           /\ ajaxThrew' = (ajaxThrew \/ ran = "TypeError")
    /\ UNCHANGED <<transport, cfg>>
    /\ UNCHANGED <<classVars, readyVars, delegateVars, templateVars,
                   selectorVars>>

AjaxNext ==
    \/ \E success, failure \in BOOLEAN, method \in {Undefined, "POST"} :
            Ajax(success, failure, method)
    \/ \E rs \in 2..4, status \in Statuses, body \in Bodies :
            TransportEvent(rs, status, body)

\* ======================================================================
\* micro.util.template
\* ======================================================================
\* the characters of a template: braces, a word character (\w) and a
\* character that is neither
WordChars == {"k"}
TemplateChars == {"{", "}", "."} \cup WordChars
Templates == StringsUpTo(TemplateChars, MaxTemplateLen)

\* the keys the data object may hold; every other key is missing from it
DataKeys == {<<"k">>}

\* the values of a key: undefined when the key is missing, else a string
\* or a number, with the text String(value) gives
Missing == [type |-> "undefined", text |-> <<>>]
Values == {Missing,
           [type |-> "string", text |-> <<>>],
           [type |-> "string", text |-> <<"v">>],
           [type |-> "number", text |-> <<"0">>],
           [type |-> "number", text |-> <<"7">>]}

\* data[b]
Lookup(d, key) == IF key \in DOMAIN d THEN d[key] ELSE Missing

\* whether a value is truthy: undefined, '' and 0 are not
Truthy(v) ==
    \/ v.type = "string" /\ v.text # <<>>
    \/ v.type = "number" /\ v.text # <<"0">>

\* function(a, b) { return data[b] || ''; }, as replace inserts it
Substitute(d, key) ==
    IF Truthy(Lookup(d, key)) THEN Lookup(d, key).text ELSE <<>>

\* length of the run of word characters of t that starts at position p
RECURSIVE WordRun(_, _)
WordRun(t, p) ==
    IF p > Len(t) \/ t[p] \notin WordChars THEN 0 ELSE 1 + WordRun(t, p + 1)

\* the literal lit at position p of t
TextAt(t, p, lit) ==
    /\ p >= 1 /\ p + Len(lit) - 1 <= Len(t)
    /\ \A j \in 1..Len(lit) : t[p + j - 1] = lit[j]

\* /\{\{([\w]+)\}\}/ matches at position i of t
PlaceholderAt(t, i) ==
    /\ TextAt(t, i, <<"{", "{">>)
    /\ WordRun(t, i + 2) >= 1
    /\ TextAt(t, i + 2 + WordRun(t, i + 2), <<"}", "}">>)

\* the template from position i on, split as replace with the g flag
\* splits it: placeholders, left to right, and the characters between
RECURSIVE Segments(_, _)
Segments(t, i) ==
    IF i > Len(t) THEN <<>>
    ELSE IF PlaceholderAt(t, i)
         THEN <<[kind |-> "key",
                 text |-> SubSeq(t, i + 2, i + 1 + WordRun(t, i + 2))]>>
              \o Segments(t, i + 4 + WordRun(t, i + 2))
         ELSE <<[kind |-> "text", text |-> <<t[i]>>]>> \o Segments(t, i + 1)

\* the segments put together again, each key replaced
RECURSIVE Render(_, _)
Render(segs, d) ==
    IF segs = <<>> THEN <<>>
    ELSE (IF Head(segs).kind = "key" THEN Substitute(d, Head(segs).text)
          ELSE Head(segs).text) \o Render(Tail(segs), d)

\* template(template, data)
template(t, d) == Render(Segments(t, 1), d)

NotRendered == [called |-> FALSE, out |-> <<>>]

\* micro.util.template(tmpl, data)
Template ==
    /\ ~rendered.called
    /\ rendered' = [called |-> TRUE, out |-> template(tmpl, data)]
    /\ UNCHANGED <<tmpl, data>>
    /\ UNCHANGED <<classVars, readyVars, delegateVars, ajaxVars, selectorVars>>

TemplateNext == Template

\* ======================================================================
\* micro.dom.qsa and micro.dom.matches
\* ======================================================================

\* a binding that probes on every call
BoundAlways(bound, capable) == IF capable THEN "native" ELSE "fallback"

\* what micro.dom.qsa or micro.dom.matches is bound to once it has been
\* called: the first call probes and rebinds, a later call finds the
\* strategy bound
Bound(bound, capable) ==
    IF bound \in {"_qsa", "_matches"}
    THEN IF capable THEN "native" ELSE "fallback"
    ELSE bound

\* whether the call runs the probe of _qsa or _matches
Probes(bound) == bound \in {"_qsa", "_matches"}

\* document.createStyleSheet() runs in the probe of _qsa that finds no
\* querySelectorAll
CreatesSheet(bound, capable) == Probes(bound) /\ ~capable

\* what the bound qsa returns: node.querySelectorAll(selector), or the
\* elements that take the style of the rule added for the selector
QsaNodes(strategy, matches) ==
    IF strategy = "native" THEN matches
    ELSE {e \in Elements : e \in matches}

NoSel == [fn |-> "none", node |-> "none", nodes |-> {}, matched |-> FALSE]

\* micro.dom.qsa(selector)
Qsa ==
    /\ selCalls < MaxSelCalls
    /\ selCalls' = selCalls + 1
    /\ domQsa' = Bound(domQsa, hasQuerySelectorAll)
    /\ probes' = [probes EXCEPT !.qsa = IF Probes(domQsa) THEN @ + 1 ELSE @]
    /\ styleSheets' = IF CreatesSheet(domQsa, hasQuerySelectorAll)
                      THEN styleSheets + 1 ELSE styleSheets
    /\ lastSel' = [fn |-> "qsa", node |-> "none",
                   nodes |-> QsaNodes(domQsa', selected), matched |-> FALSE]
    /\ UNCHANGED <<hasQuerySelectorAll, hasMatchesFunc, domMatches, selected>>
    /\ UNCHANGED <<classVars, readyVars, delegateVars, ajaxVars, templateVars>>

\* micro.dom.matches(node, selector): the native test, or the fallback's
\* search of this.qsa(selector), a call of micro.dom.qsa of its own
Matches(node) ==
    /\ selCalls < MaxSelCalls
    /\ selCalls' = selCalls + 1
    /\ domMatches' = Bound(domMatches, hasMatchesFunc)
    /\ probes' = IF domMatches' = "fallback"
                 THEN [qsa |-> IF Probes(domQsa) THEN probes.qsa + 1
                               ELSE probes.qsa,
                       matches |-> IF Probes(domMatches) THEN probes.matches + 1
                                   ELSE probes.matches]
                 ELSE [probes EXCEPT
                          !.matches = IF Probes(domMatches) THEN @ + 1 ELSE @]
    /\ IF domMatches' = "fallback"
       THEN /\ domQsa' = Bound(domQsa, hasQuerySelectorAll)
            /\ styleSheets' = IF CreatesSheet(domQsa, hasQuerySelectorAll)
                              THEN styleSheets + 1 ELSE styleSheets
            /\ lastSel' = [fn |-> "matches", node |-> node, nodes |-> {},
                           matched |-> node \in QsaNodes(domQsa', selected)]
       ELSE /\ UNCHANGED <<domQsa, styleSheets>>
            /\ lastSel' = [fn |-> "matches", node |-> node, nodes |-> {},
                           matched |-> node \in selected]
    /\ UNCHANGED <<hasQuerySelectorAll, hasMatchesFunc, selected>>
    /\ UNCHANGED <<classVars, readyVars, delegateVars, ajaxVars, templateVars>>

\* a script defines document.querySelectorAll or Element.prototype.matches
\* where it was missing
CapabilityAppears ==
    /\ ~hasQuerySelectorAll \/ ~hasMatchesFunc
    /\ \E q, m \in BOOLEAN :
        /\ hasQuerySelectorAll => q
        /\ hasMatchesFunc => m
        /\ q # hasQuerySelectorAll \/ m # hasMatchesFunc
        /\ hasQuerySelectorAll' = q
        /\ hasMatchesFunc' = m
    /\ UNCHANGED <<domQsa, domMatches, styleSheets, probes, selected, lastSel,
                   selCalls>>
    /\ UNCHANGED <<classVars, readyVars, delegateVars, ajaxVars, templateVars>>

\* an element comes to match the selector, or stops matching it
SelectedChanges(e) ==
    /\ selected' = IF e \in selected THEN selected \ {e} ELSE selected \cup {e}
    /\ UNCHANGED <<hasQuerySelectorAll, hasMatchesFunc, domQsa, domMatches,
                   styleSheets, probes, lastSel, selCalls>>
    /\ UNCHANGED <<classVars, readyVars, delegateVars, ajaxVars, templateVars>>

SelectorNext ==
    \/ Qsa
    \/ \E node \in Elements : Matches(node)
    \/ CapabilityAppears
    \/ \E e \in Elements : SelectedChanges(e)

\* ======================================================================
\* specifications: one per part of the library, the other parts at rest
\* ======================================================================

\* a node with any class attribute
ClassInit ==
    /\ className \in ClassStrings
    /\ lastCall = NoCall
    /\ nativeEvents = TRUE
    /\ doScrollTop = FALSE
    /\ readyState = "loading"
    /\ calledAt = NotCalled
    /\ listeners = {}
    /\ timerArmed = FALSE
    /\ isReady = FALSE
    /\ callbackCount = 0
    /\ seen = {}
    /\ delivered = [s \in EventSignals |-> 0]
    /\ polls = 0
    /\ domKind = "standard"
    /\ matching = {}
    /\ delegatedEvt = NotCalled
    /\ nodeListeners = {}
    /\ lastEvent = NoEvent
    /\ transport = "none"
    /\ cfg = NoCfg
    /\ xmlhttp = NoTransport
    /\ successCalls = 0
    /\ failureCalls = 0
    /\ successArg = Undefined
    /\ ajaxThrew = FALSE
    /\ progressEvents = 0
    /\ tmpl = <<>>
    /\ data = [k \in DataKeys |-> Missing]
    /\ rendered = NotRendered
    /\ hasQuerySelectorAll = TRUE
    /\ hasMatchesFunc = TRUE
    /\ domQsa = "_qsa"
    /\ domMatches = "_matches"
    /\ styleSheets = 0
    /\ probes = [qsa |-> 0, matches |-> 0]
    /\ selected = {}
    /\ lastSel = NoSel
    /\ selCalls = 0

SpecClass == ClassInit /\ [][ClassNext]_vars

\* a document in any load state, onReady not yet called
ReadyInit ==
    /\ className = <<>>
    /\ lastCall = NoCall
    /\ nativeEvents \in BOOLEAN
    /\ doScrollTop \in BOOLEAN
    /\ readyState \in {"loading", "interactive", "complete"}
    /\ calledAt = NotCalled
    /\ listeners = {}
    /\ timerArmed = FALSE
    /\ isReady = FALSE
    /\ callbackCount = 0
    /\ seen = {}
    /\ delivered = [s \in EventSignals |-> 0]
    /\ polls = 0
    /\ domKind = "standard"
    /\ matching = {}
    /\ delegatedEvt = NotCalled
    /\ nodeListeners = {}
    /\ lastEvent = NoEvent
    /\ transport = "none"
    /\ cfg = NoCfg
    /\ xmlhttp = NoTransport
    /\ successCalls = 0
    /\ failureCalls = 0
    /\ successArg = Undefined
    /\ ajaxThrew = FALSE
    /\ progressEvents = 0
    /\ tmpl = <<>>
    /\ data = [k \in DataKeys |-> Missing]
    /\ rendered = NotRendered
    /\ hasQuerySelectorAll = TRUE
    /\ hasMatchesFunc = TRUE
    /\ domQsa = "_qsa"
    /\ domMatches = "_matches"
    /\ styleSheets = 0
    /\ probes = [qsa |-> 0, matches |-> 0]
    /\ selected = {}
    /\ lastSel = NoSel
    /\ selCalls = 0

SpecReady == ReadyInit /\ [][ReadyNext]_vars

\* a container whose elements match the selector or not, delegate not yet called
DelegateInit ==
    /\ className = <<>>
    /\ lastCall = NoCall
    /\ nativeEvents = TRUE
    /\ doScrollTop = FALSE
    /\ readyState = "loading"
    /\ calledAt = NotCalled
    /\ listeners = {}
    /\ timerArmed = FALSE
    /\ isReady = FALSE
    /\ callbackCount = 0
    /\ seen = {}
    /\ delivered = [s \in EventSignals |-> 0]
    /\ polls = 0
    /\ domKind \in {"standard", "legacy", "none"}
    /\ matching \in SUBSET Elements
    /\ delegatedEvt = NotCalled
    /\ nodeListeners = {}
    /\ lastEvent = NoEvent
    /\ transport = "none"
    /\ cfg = NoCfg
    /\ xmlhttp = NoTransport
    /\ successCalls = 0
    /\ failureCalls = 0
    /\ successArg = Undefined
    /\ ajaxThrew = FALSE
    /\ progressEvents = 0
    /\ tmpl = <<>>
    /\ data = [k \in DataKeys |-> Missing]
    /\ rendered = NotRendered
    /\ hasQuerySelectorAll = TRUE
    /\ hasMatchesFunc = TRUE
    /\ domQsa = "_qsa"
    /\ domMatches = "_matches"
    /\ styleSheets = 0
    /\ probes = [qsa |-> 0, matches |-> 0]
    /\ selected = {}
    /\ lastSel = NoSel
    /\ selCalls = 0

SpecDelegate == DelegateInit /\ [][DelegateNext]_vars

\* a window offering a transport or none, ajax not yet called
AjaxInit ==
    /\ className = <<>>
    /\ lastCall = NoCall
    /\ nativeEvents = TRUE
    /\ doScrollTop = FALSE
    /\ readyState = "loading"
    /\ calledAt = NotCalled
    /\ listeners = {}
    /\ timerArmed = FALSE
    /\ isReady = FALSE
    /\ callbackCount = 0
    /\ seen = {}
    /\ delivered = [s \in EventSignals |-> 0]
    /\ polls = 0
    /\ domKind = "standard"
    /\ matching = {}
    /\ delegatedEvt = NotCalled
    /\ nodeListeners = {}
    /\ lastEvent = NoEvent
    /\ transport \in {"XMLHttpRequest", "ActiveXObject", "none"}
    /\ cfg = NoCfg
    /\ xmlhttp = NoTransport
    /\ successCalls = 0
    /\ failureCalls = 0
    /\ successArg = Undefined
    /\ ajaxThrew = FALSE
    /\ progressEvents = 0
    /\ tmpl = <<>>
    /\ data = [k \in DataKeys |-> Missing]
    /\ rendered = NotRendered
    /\ hasQuerySelectorAll = TRUE
    /\ hasMatchesFunc = TRUE
    /\ domQsa = "_qsa"
    /\ domMatches = "_matches"
    /\ styleSheets = 0
    /\ probes = [qsa |-> 0, matches |-> 0]
    /\ selected = {}
    /\ lastSel = NoSel
    /\ selCalls = 0

SpecAjax == AjaxInit /\ [][AjaxNext]_vars

\* any template and any data object, template not yet called
TemplateInit ==
    /\ className = <<>>
    /\ lastCall = NoCall
    /\ nativeEvents = TRUE
    /\ doScrollTop = FALSE
    /\ readyState = "loading"
    /\ calledAt = NotCalled
    /\ listeners = {}
    /\ timerArmed = FALSE
    /\ isReady = FALSE
    /\ callbackCount = 0
    /\ seen = {}
    /\ delivered = [s \in EventSignals |-> 0]
    /\ polls = 0
    /\ domKind = "standard"
    /\ matching = {}
    /\ delegatedEvt = NotCalled
    /\ nodeListeners = {}
    /\ lastEvent = NoEvent
    /\ transport = "none"
    /\ cfg = NoCfg
    /\ xmlhttp = NoTransport
    /\ successCalls = 0
    /\ failureCalls = 0
    /\ successArg = Undefined
    /\ ajaxThrew = FALSE
    /\ progressEvents = 0
    /\ tmpl \in Templates
    /\ data \in [DataKeys -> Values]
    /\ rendered = NotRendered
    /\ hasQuerySelectorAll = TRUE
    /\ hasMatchesFunc = TRUE
    /\ domQsa = "_qsa"
    /\ domMatches = "_matches"
    /\ styleSheets = 0
    /\ probes = [qsa |-> 0, matches |-> 0]
    /\ selected = {}
    /\ lastSel = NoSel
    /\ selCalls = 0

SpecTemplate == TemplateInit /\ [][TemplateNext]_vars

\* a document with or without querySelectorAll and matches, micro.dom
\* not yet called
SelectorInit ==
    /\ className = <<>>
    /\ lastCall = NoCall
    /\ nativeEvents = TRUE
    /\ doScrollTop = FALSE
    /\ readyState = "loading"
    /\ calledAt = NotCalled
    /\ listeners = {}
    /\ timerArmed = FALSE
    /\ isReady = FALSE
    /\ callbackCount = 0
    /\ seen = {}
    /\ delivered = [s \in EventSignals |-> 0]
    /\ polls = 0
    /\ domKind = "standard"
    /\ matching = {}
    /\ delegatedEvt = NotCalled
    /\ nodeListeners = {}
    /\ lastEvent = NoEvent
    /\ transport = "none"
    /\ cfg = NoCfg
    /\ xmlhttp = NoTransport
    /\ successCalls = 0
    /\ failureCalls = 0
    /\ successArg = Undefined
    /\ ajaxThrew = FALSE
    /\ progressEvents = 0
    /\ tmpl = <<>>
    /\ data = [k \in DataKeys |-> Missing]
    /\ rendered = NotRendered
    /\ hasQuerySelectorAll \in BOOLEAN
    /\ hasMatchesFunc \in BOOLEAN
    /\ domQsa = "_qsa"
    /\ domMatches = "_matches"
    /\ styleSheets = 0
    /\ probes = [qsa |-> 0, matches |-> 0]
    /\ selected \in SUBSET Elements
    /\ lastSel = NoSel
    /\ selCalls = 0

SpecSelector == SelectorInit /\ [][SelectorNext]_vars

\* ======================================================================
\* properties
\* ======================================================================

AjaxCalled == cfg.method # NotCalled

\* the completion sources that have arrived since a legacy onReady call:
\* the doScroll poll returning, readystatechange reaching 'complete', onload
LegacyCompleted ==
    \/ "doScroll" \in seen
    \/ "load" \in seen
    \/ "readystatechange" \in seen /\ readyState = "complete"

\* C1: with native eventing and a document not complete at call time, the
\* callback has run exactly once as soon as DOMContentLoaded or load has
\* been delivered, whatever their order and number, and not before.
C1_NativeExactlyOnce ==
    (nativeEvents /\ Called /\ calledAt # "complete") =>
        callbackCount = IF seen \cap {"DOMContentLoaded", "load"} # {} THEN 1 ELSE 0

C1_Witness ==
    /\ nativeEvents /\ Called /\ calledAt # "complete"
    /\ {"DOMContentLoaded", "load"} \subseteq seen
    /\ callbackCount = 1

\* C2: on a legacy environment with a document not complete at call time,
\* the callback has run exactly once as soon as one of the three
\* completion sources has arrived, and every later source is suppressed.
C2_LegacyExactlyOnce ==
    (~nativeEvents /\ Called /\ calledAt # "complete") =>
        callbackCount = IF LegacyCompleted THEN 1 ELSE 0

\* C3: once delegate has put its listener on the container, an occurrence
\* of evt on an element that matches the selector invokes callback exactly
\* once with that element as context, and an occurrence on an element that
\* does not match invokes nothing.
C3_DelegateInvokesMatching ==
    (/\ delegatedEvt # NotCalled
     /\ <<Container, ListenerName(delegatedEvt, domKind), "delegated">>
            \in nodeListeners
     /\ lastEvent.registered
     /\ lastEvent.type = delegatedEvt) =>
        IF lastEvent.matched
        THEN lastEvent.invoked = 1 /\ lastEvent.context = lastEvent.target
        ELSE lastEvent.invoked = 0

\* C4: with success and failure both supplied, a completed transport
\* (readyState 4) has invoked success once with the response body and not
\* failure when the status is 200, and failure once and not success for
\* any other status.
C4_CompletionCallbacks ==
    (cfg.success /\ cfg.failure /\ xmlhttp.readyState = 4) =>
        IF xmlhttp.status = 200
        THEN /\ successCalls = 1
             /\ successArg = xmlhttp.responseText
             /\ failureCalls = 0
        ELSE /\ failureCalls = 1
             /\ successCalls = 0

C4_Witness ==
    /\ cfg.success /\ cfg.failure /\ xmlhttp.readyState = 4
    /\ xmlhttp.status = 404 /\ failureCalls = 1

\* C5: where window offers no transport, ajax has invoked failure once if
\* it was supplied and nothing otherwise, never success, has created,
\* opened and sent nothing, and has raised no error.
C5_NoTransport ==
    (transport = "none" /\ AjaxCalled) =>
        /\ failureCalls = IF cfg.failure THEN 1 ELSE 0
        /\ successCalls = 0
        /\ xmlhttp = NoTransport
        /\ ~ajaxThrew

C5_Witness ==
    transport = "none" /\ AjaxCalled /\ cfg.failure /\ failureCalls = 1

\* C6: when document.readyState is 'complete' at call time, the callback
\* has run exactly once by the time onReady returns, no listener is
\* registered and no timer armed, and no later signal runs it again.
C6_AlreadyComplete ==
    calledAt = "complete" =>
        callbackCount = 1 /\ listeners = {} /\ ~timerArmed

C6_Witness ==
    calledAt = "complete" /\ "load" \in seen /\ callbackCount = 1

\* C7: after removeClass(node, n) with n a non-empty class name, n is no
\* token of the class attribute and hasClass(node, n) is false, however
\* many times n occurred before.
C7_RemoveLeavesNone ==
    (lastCall.op = "removeClass" /\ lastCall.name # <<>>) =>
        ~hasClass(className, lastCall.name) /\ ~IsToken(className, lastCall.name)

C7_Witness ==
    /\ lastCall.op = "removeClass" /\ lastCall.name # <<>>
    /\ lastCall.count >= 2
    /\ className # <<>>
    /\ ~hasClass(className, lastCall.name)

\* C8: after addClass(node, n) with n a class name (a non-empty token),
\* hasClass(node, n) is true.
C8_AddThenHas ==
    (lastCall.op = "addClass" /\ lastCall.name # <<>>) =>
        hasClass(className, lastCall.name)

C8_Witness ==
    /\ lastCall.op = "addClass" /\ lastCall.name # <<>>
    /\ ~lastCall.had
    /\ Len(Tokens(className)) >= 2
    /\ hasClass(className, lastCall.name)

\* C9: from a class attribute in which no token occurs twice, no sequence
\* of addClass, removeClass and toggleClass calls leads to an attribute in
\* which a token occurs twice, and after an addClass(node, n) a second
\* addClass(node, n) would leave the attribute as it is.
C9_NoDuplicates ==
    ~HasDuplicate(Tokens(className)) =>
        [](/\ ~HasDuplicate(Tokens(className))
           /\ lastCall.op = "addClass" =>
                addClass(className, lastCall.name) = className)

C9_Witness ==
    /\ lastCall.op = "addClass" /\ lastCall.name # <<>>
    /\ ~lastCall.had
    /\ Len(Tokens(className)) >= 2
    /\ ~HasDuplicate(Tokens(className))
    /\ addClass(className, lastCall.name) = className

\* C10: after toggleClass(node, n, force) with n a class name (a non-empty
\* token), hasClass(node, n) is force when force is a boolean, and the
\* negation of what it was before the call when force is omitted.
C10_ToggleResult ==
    (lastCall.op = "toggleClass" /\ lastCall.name # <<>>) =>
        hasClass(className, lastCall.name) =
            IF lastCall.force # Undefined THEN lastCall.force = "true"
            ELSE ~lastCall.had

C10_Witness ==
    /\ lastCall.op = "toggleClass" /\ lastCall.name # <<>>
    /\ lastCall.force = "false"
    /\ lastCall.count >= 2
    /\ ~hasClass(className, lastCall.name)

\* C11: for a class name n (a non-empty name of ordinary characters),
\* hasClass(node, n) is true exactly when n is one of the whitespace-
\* delimited tokens of the class attribute; a token of which n is only a
\* part does not count.
C11_HasIffToken ==
    \A n \in ClassNames \ {<<>>} :
        hasClass(className, n) <=> IsToken(className, n)

C11_Witness ==
    /\ IsToken(className, <<"a", "b">>)
    /\ ~IsToken(className, <<"a">>) /\ ~IsToken(className, <<"b">>)
    /\ hasClass(className, <<"a", "b">>)
    /\ ~hasClass(className, <<"a">>) /\ ~hasClass(className, <<"b">>)

\* C12: removeClass is idempotent: after removeClass(node, n), a second
\* removeClass(node, n) leaves the class attribute as the first left it.
C12_RemoveIdempotent ==
    lastCall.op = "removeClass" =>
        removeClass(className, lastCall.name) = className

C12_Witness ==
    /\ lastCall.op = "removeClass" /\ lastCall.had
    /\ lastCall.count >= 2
    /\ Len(Tokens(className)) >= 1
    /\ removeClass(className, lastCall.name) = className

\* C13: removeClass(node, '') and toggleClass(node, '', force), for force
\* true, false or omitted, leave the class attribute exactly as it was,
\* and so does removeClass(node, n) when hasClass(node, n) is false.
C13_EmptyNameNoOp ==
    [][/\ (lastCall'.name = <<>> /\ lastCall'.op \in {"removeClass", "toggleClass"})
            => className' = className
       /\ (lastCall'.op = "removeClass" /\ ~lastCall'.had)
            => className' = className]_vars

C13_Witness ==
    /\ lastCall.op = "toggleClass" /\ lastCall.name = <<>>
    /\ lastCall.force = "true" /\ ~lastCall.had
    /\ Len(Tokens(className)) >= 2

\* C19: addClass(node, n) and removeClass(node, n) leave the tokens other
\* than n as they were, in the same order: no neighbour of n is merged
\* with another and no other class is dropped.
C19_OtherTokensKept ==
    [][lastCall'.op \in {"addClass", "removeClass"} =>
            Without(Tokens(className'), lastCall'.name)
                = Without(Tokens(className), lastCall'.name)]_vars

C19_Witness ==
    /\ lastCall.op = "removeClass" /\ lastCall.name = <<"a">>
    /\ lastCall.count >= 1
    /\ Tokens(className) = << <<"b">>, <<"b">> >>

\* C15: once the callback of onReady has run, no listener that the call
\* registered is still attached.
C15_ListenersGoneOnceFired ==
    (Called /\ callbackCount >= 1) => listeners = {}

\* the listeners the legacy change path leaves on the elements
ChangeListeners(es) == {<<e, "onchange", "direct">> : e \in es}

\* the elements that carry a listener
Listening == {l[1] : l \in nodeListeners}

\* C16: delegate for 'change' on a legacy container registers one listener
\* on each element that matches the selector at that time and none on the
\* container; a change on an element that carries a listener invokes
\* callback once with that element as context, and a change on any other
\* element, also one that has come to match since, invokes nothing.
C16_LegacyChange ==
    /\ []((delegatedEvt = "change" /\ domKind = "legacy") =>
            /\ nodeListeners \subseteq ChangeListeners(Elements)
            /\ (lastEvent.registered /\ lastEvent.type = "change") =>
                    IF lastEvent.target \in Listening
                    THEN lastEvent.invoked = 1
                         /\ lastEvent.context = lastEvent.target
                    ELSE lastEvent.invoked = 0)
    /\ [][(delegatedEvt = NotCalled /\ delegatedEvt' = "change"
                /\ domKind = "legacy") =>
            nodeListeners' = ChangeListeners(matching)]_vars
    /\ [][delegatedEvt # NotCalled => nodeListeners' = nodeListeners]_vars

C16_Witness ==
    /\ delegatedEvt = "change" /\ domKind = "legacy"
    /\ lastEvent.registered /\ lastEvent.type = "change"
    /\ lastEvent.matched /\ lastEvent.target \notin Listening
    /\ lastEvent.invoked = 0
    /\ Listening # {}

\* C18: for a request that has a transport, no callback has been invoked
\* while readyState is not 4, success and failure have been invoked at
\* most once between them, and a completion with a status other than 200
\* and no failure callback has invoked nothing and raised no error.
C18_AtMostOneCallback ==
    xmlhttp.kind # "none" =>
        /\ xmlhttp.readyState # 4 => successCalls = 0 /\ failureCalls = 0
        /\ successCalls + failureCalls <= 1
        /\ (xmlhttp.readyState = 4 /\ xmlhttp.status # 200 /\ ~cfg.failure) =>
                successCalls = 0 /\ failureCalls = 0 /\ ~ajaxThrew

C18_Witness ==
    /\ xmlhttp.kind # "none" /\ xmlhttp.readyState = 4
    /\ xmlhttp.status = 404 /\ ~cfg.failure /\ cfg.success
    /\ progressEvents >= 2
    /\ successCalls = 0 /\ failureCalls = 0

\* the text a key stands for when every key that is present is replaced
\* by its value and every missing key by the empty string
ValueOrEmpty(d, key) ==
    IF Lookup(d, key).type # "undefined" THEN Lookup(d, key).text ELSE <<>>

RECURSIVE Filled(_, _)
Filled(segs, d) ==
    IF segs = <<>> THEN <<>>
    ELSE (IF Head(segs).kind = "key" THEN ValueOrEmpty(d, Head(segs).text)
          ELSE Head(segs).text) \o Filled(Tail(segs), d)

\* C14: template(t, data) is t with every placeholder {{key}} replaced by
\* the value data[key] when the key is present in data and by the empty
\* string when it is missing, and with all other text unchanged.
C14_TemplateFilled ==
    rendered.called => rendered.out = Filled(Segments(tmpl, 1), data)

\* C17: micro.dom.qsa and micro.dom.matches probe once: each probe and the
\* creation of the fallback style sheet happens at most once, a strategy
\* once bound stays bound whatever becomes of the document's capability,
\* and a call, the first included, returns what the bound strategy returns.
C17_ProbeOnce ==
    /\ [](styleSheets <= 1 /\ probes.qsa <= 1 /\ probes.matches <= 1)
    /\ [][domQsa # "_qsa" => domQsa' = domQsa]_vars
    /\ [][domMatches # "_matches" => domMatches' = domMatches]_vars
    /\ [][(selCalls' > selCalls /\ lastSel'.fn = "qsa") =>
            lastSel'.nodes = QsaNodes(domQsa', selected)]_vars
    /\ [][(selCalls' > selCalls /\ lastSel'.fn = "matches") =>
            lastSel'.matched =
                IF domMatches' = "native" THEN lastSel'.node \in selected
                ELSE lastSel'.node \in QsaNodes(domQsa', selected)]_vars

C17_Witness ==
    /\ domQsa = "fallback" /\ domMatches = "fallback"
    /\ hasQuerySelectorAll /\ hasMatchesFunc
    /\ selCalls >= 3
    /\ lastSel.fn = "qsa" /\ lastSel.nodes # {}
    /\ styleSheets = 1 /\ probes.qsa = 1 /\ probes.matches = 1

====
